---- MODULE Spec2Model ----
(***************************************************************************)
(* Model of victron-cobol/scripts/render-cobol-coverage.py: the gcov       *)
(* parser (parse_gcov and its nested flush), the summary aggregator        *)
(* (compute_summary, percent) and the two renderers (build_json_payload,   *)
(* render_html), driven by main; and of the solar data modules of         *)
(* victron-python/src: SolarPipeline (pipeline.py), validate_solar_data    *)
(* (data_quality.py) and the cost report (cost_analysis.py).               *)
(*                                                                         *)
(* Spec runs main on a gcov listing, MergeSpec runs parse_gcov on blocks   *)
(* of one line, SolarSpec calls the solar data modules on one pipeline.    *)
(*                                                                         *)
(* Text is modelled as sequences of one-character strings, so that strip,  *)
(* split, isdigit and int are computed the way Python computes them.       *)
(* Optional values are sequences: <<>> is None, <<v>> is the value v.      *)
(* Dictionaries are functions whose domain is the set of keys.             *)
(***************************************************************************)
EXTENDS Integers, Sequences, FiniteSets, TLC

\* ------------------------------------------------------------------ bounds
MaxRecords == 4      \* records of the gcov listing read in one run
MaxLine == 2         \* line numbers a marker can name are 1..MaxLine
MaxBranchId == 1     \* branch ids are 0..MaxBranchId
MaxSourceLines == 2  \* the source text has 0..MaxSourceLines physical lines
MaxRows == 2         \* a data frame has 0..MaxRows rows
MaxDate == 2         \* the dates of the rows and of the filters are 1..MaxDate

None == <<>>
Some(v) == <<v>>
EmptyDict == <<>>

\* ------------------------------------------------------------ text helpers
Digits == {"0", "1", "2", "3", "4", "5", "6", "7", "8", "9"}
Whitespace == {" ", "\t"}

DigitVal(c) ==
  CASE c = "0" -> 0 [] c = "1" -> 1 [] c = "2" -> 2 [] c = "3" -> 3
    [] c = "4" -> 4 [] c = "5" -> 5 [] c = "6" -> 6 [] c = "7" -> 7
    [] c = "8" -> 8 [] c = "9" -> 9

\* str.strip(): drop leading and trailing whitespace
RECURSIVE LStrip(_)
LStrip(s) ==
  IF s # <<>> /\ Head(s) \in Whitespace THEN LStrip(Tail(s)) ELSE s

RECURSIVE RStrip(_)
RStrip(s) ==
  IF s # <<>> /\ s[Len(s)] \in Whitespace
    THEN RStrip(SubSeq(s, 1, Len(s) - 1))
    ELSE s

Strip(s) == RStrip(LStrip(s))

\* str.startswith(prefix)
StartsWith(s, prefix) ==
  /\ Len(s) >= Len(prefix)
  /\ SubSeq(s, 1, Len(prefix)) = prefix

\* str.split(":", maxsplit): at most maxsplit cuts, the rest stays whole
RECURSIVE SplitColonFrom(_, _, _)
SplitColonFrom(s, maxsplit, acc) ==
  IF s = <<>> THEN <<acc>>
  ELSE IF Head(s) = ":" /\ maxsplit > 0
    THEN <<acc>> \o SplitColonFrom(Tail(s), maxsplit - 1, <<>>)
    ELSE SplitColonFrom(Tail(s), maxsplit, Append(acc, Head(s)))

SplitColon(s, maxsplit) == SplitColonFrom(s, maxsplit, <<>>)

\* str.isdigit(): non-empty and every character a digit
IsDigit(s) == s # <<>> /\ \A i \in 1..Len(s) : s[i] \in Digits

RECURSIVE DigitsValue(_, _)
DigitsValue(s, acc) ==
  IF s = <<>> THEN acc ELSE DigitsValue(Tail(s), 10 * acc + DigitVal(Head(s)))

\* int(text): optional sign then digits; None stands for ValueError
ParseInt(text) ==
  LET s == Strip(text)
      signed == s # <<>> /\ Head(s) \in {"-", "+"}
      body == IF signed THEN Tail(s) ELSE s
  IN IF ~IsDigit(body) THEN None
     ELSE IF signed /\ Head(s) = "-" THEN Some(0 - DigitsValue(body, 0))
     ELSE Some(DigitsValue(body, 0))

\* pathlib.Path(p).name: the last component of the path
PathName(path) == IF path = <<>> THEN "" ELSE path[Len(path)]

\* max(counts) of a non-empty list
RECURSIVE MaxOf(_)
MaxOf(xs) ==
  IF Len(xs) = 1 THEN xs[1]
  ELSE LET m == MaxOf(Tail(xs)) IN IF Head(xs) > m THEN Head(xs) ELSE m

\* the default rate_per_kwh, 0.14 USD, in hundredths of a dollar
rate_per_kwh == 14

\* ------------------------------------------------------------------ inputs
source_basename == "SOLARCOST.cob"

Lines == 1..MaxLine
BranchIds == 0..MaxBranchId
Percents == {0, 50, 100}

\* paths a marker can carry, by whether they name the target file
TargetPaths == { <<"SOLARCOST.cob">>, <<"src", "SOLARCOST.cob">> }
OtherPaths == { <<"copy", "SOLARDEFS.cpy">>, <<"SOLARCOST.cob", "SOLARDEFS.cpy">> }

\* count fields of gcov data lines; val is what the token stands for
\* (None: not a count token)
IntegerTokens ==
  { [txt |-> <<"5">>, val |-> Some(5)],
    [txt |-> <<"3">>, val |-> Some(3)],
    [txt |-> <<"0">>, val |-> Some(0)],
    [txt |-> <<"-", "1">>, val |-> Some(0 - 1)] }

SentinelTokens ==
  { [txt |-> <<"#", "#", "#", "#", "#">>, val |-> Some(0)],
    [txt |-> <<"=", "=", "=", "=", "=">>, val |-> Some(0)] }

CountTokens == IntegerTokens \cup SentinelTokens

Pad == <<" ", " ">>
Colon == <<":">>

\* "  <count>:  7:x": a well-formed data line carrying a count token
CountLines ==
  { [kind |-> "text", raw |-> Pad \o t.txt \o Colon \o Pad \o <<"7">> \o Colon \o <<"x">>,
     count |-> t.val, malformed |-> FALSE] : t \in CountTokens }
  \cup
  { [kind |-> "text", raw |-> <<"5", ":", "7", ":", "a", ":", "b">>,
     count |-> Some(5), malformed |-> FALSE] }

\* data lines the parser has to drop
MalformedRaw ==
  { <<"5", ":", "7">>,                      \* fewer than three fields
    <<"5">>,                                \* no colon at all
    <<"5", ":", "x", ":", "y">>,            \* non-numeric line-number field
    <<"5", ":", ":", "y">>,                 \* empty line-number field
    <<":", "7", ":", "y">>,                 \* empty count field
    <<" ", ":", "7", ":", "y">>,            \* blank count field
    <<" ", "-", ":", " ", "7", ":", "y">>,  \* '-' count field
    <<"5", "*", ":", "7", ":", "y">>,       \* count field that is no integer
    <<"a", "b", ":", "7", ":", "y">> }

MalformedLines ==
  { [kind |-> "text", raw |-> r, count |-> None, malformed |-> TRUE] : r \in MalformedRaw }

AnnotationRaw ==
  { <<"c", "a", "l", "l", " ", "0">>,
    <<" ", "c", "a", "l", "l", ":", "7", ":", "1">>,
    <<"f", "u", "n", "c", "t", "i", "o", "n", " ", "f">> }

BlankRaw == { <<>>, <<" ", " ">> }

OtherLines ==
  { [kind |-> "text", raw |-> r, count |-> None, malformed |-> FALSE] :
      r \in AnnotationRaw \cup BlankRaw }

TextLines == CountLines \cup MalformedLines \cup OtherLines

\* "<count>: n: /* Line: <line> : ... : <path> */" (LINE_COMMENT_RE matches)
\* target says which set the path was drawn from; count is the count field
\* of the marker's own line
MarkerLines ==
  { [kind |-> "marker", line |-> l, path |-> p, target |-> TRUE, count |-> c] :
      l \in Lines, p \in TargetPaths, c \in {None, Some(1)} }
  \cup
  { [kind |-> "marker", line |-> l, path |-> p, target |-> FALSE, count |-> c] :
      l \in Lines, p \in OtherPaths, c \in {None, Some(1)} }

\* "branch <id> taken <pct>%" (BRANCH_TAKEN_RE matches)
BranchTakenLines ==
  { [kind |-> "branch_taken", id |-> b, pct |-> p] : b \in BranchIds, p \in Percents }

\* "branch <id> never executed" (BRANCH_NEVER_RE matches)
BranchNeverLines ==
  { [kind |-> "branch_never", id |-> b] : b \in BranchIds }

\* the stripped text of a branch record, kept as its detail
TakenDetail(b, p) == [text |-> "branch taken", id |-> b, percent |-> p]
NeverDetail(b) == [text |-> "branch never executed", id |-> b, percent |-> 0]

\* ------------------------------------------------------------------ parser
\* parse_gcov's locals: p = [results, current_line, counts, branches, raised];
\* raised is the exception leaving parse_gcov, None while there is none
NewEntry == [hits |-> None, executable |-> FALSE, branches |-> EmptyDict]

ParserInit ==
  [results |-> EmptyDict, current_line |-> None, counts |-> <<>>,
   branches |-> EmptyDict, raised |-> None]

\* dict[key] = value
DictSet(d, key, value) ==
  [k \in DOMAIN d \cup {key} |-> IF k = key THEN value ELSE d[k]]

\* FlushHits storing the block's maximum over whatever was stored
FlushHits_Overwrite(entry, counts) ==
  IF counts # <<>>
    THEN [entry EXCEPT !.executable = TRUE, !.hits = Some(MaxOf(counts))]
    ELSE entry

\* FlushHits adding the block's maximum to what was stored
FlushHits_Accumulate(entry, counts) ==
  IF counts # <<>>
    THEN [entry EXCEPT
            !.executable = TRUE,
            !.hits = IF entry.hits = None THEN Some(MaxOf(counts))
                     ELSE Some(entry.hits[1] + MaxOf(counts))]
    ELSE entry

\* FlushHits clearing the entry when the block has no count
FlushHits_ClearWhenEmpty(entry, counts) ==
  IF counts # <<>>
    THEN LET hit_value == MaxOf(counts)
         IN [entry EXCEPT
               !.executable = TRUE,
               !.hits = IF entry.hits = None \/ hit_value > entry.hits[1]
                          THEN Some(hit_value)
                          ELSE entry.hits]
    ELSE [entry EXCEPT !.executable = FALSE, !.hits = None]

\* FlushHits marking the line executable whether or not the block has a count
FlushHits_AlwaysExecutable(entry, counts) ==
  IF counts # <<>>
    THEN LET hit_value == MaxOf(counts)
         IN [entry EXCEPT
               !.executable = TRUE,
               !.hits = IF entry.hits = None \/ hit_value > entry.hits[1]
                          THEN Some(hit_value)
                          ELSE entry.hits]
    ELSE [entry EXCEPT !.executable = TRUE]

\* the hits / executable part of flush
FlushHits(entry, counts) ==
  IF counts # <<>>
    THEN LET hit_value == MaxOf(counts)
         IN [entry EXCEPT
               !.executable = TRUE,
               !.hits = IF entry.hits = None \/ hit_value > entry.hits[1]
                          THEN Some(hit_value)
                          ELSE entry.hits]
    ELSE entry

\* FlushBranches letting the block's record replace the stored one
FlushBranches_Latest(stored, branches) ==
  [b \in DOMAIN stored \cup DOMAIN branches |->
     IF b \in DOMAIN branches THEN branches[b] ELSE stored[b]]

\* the branch loop of flush
FlushBranches(stored, branches) ==
  [b \in DOMAIN stored \cup DOMAIN branches |->
     IF b \in DOMAIN branches
        /\ (b \notin DOMAIN stored \/ branches[b].pct > stored[b].pct)
       THEN branches[b]
       ELSE stored[b]]

flush(p) ==
  IF p.current_line = None THEN p
  ELSE
    LET line == p.current_line[1]
        entry == IF line \in DOMAIN p.results THEN p.results[line] ELSE NewEntry
        withHits == FlushHits(entry, p.counts)
        merged == [withHits EXCEPT !.branches = FlushBranches(entry.branches, p.branches)]
    IN [p EXCEPT !.results = DictSet(p.results, line, merged),
                 !.current_line = None,
                 !.counts = <<>>,
                 !.branches = EmptyDict]

\* OnMarker without the comparison of the file name
OnMarker_AnyFile(p, rec) ==
  [flush(p) EXCEPT !.current_line = Some(rec.line),
                   !.counts = <<>>,
                   !.branches = EmptyDict]

\* a line LINE_COMMENT_RE matches
OnMarker(p, rec) ==
  LET f == flush(p)
  IN IF PathName(rec.path) # source_basename
       THEN [f EXCEPT !.current_line = None]
       ELSE [f EXCEPT !.current_line = Some(rec.line),
                      !.counts = <<>>,
                      !.branches = EmptyDict]

OnBranchTaken(p, rec) ==
  IF p.current_line = None THEN p
  ELSE [p EXCEPT !.branches =
          DictSet(p.branches, rec.id, [pct |-> rec.pct, detail |-> TakenDetail(rec.id, rec.pct)])]

OnBranchNever(p, rec) ==
  IF p.current_line = None THEN p
  ELSE [p EXCEPT !.branches =
          DictSet(p.branches, rec.id, [pct |-> 0, detail |-> NeverDetail(rec.id)])]

\* AppendCount taking '-' for a count of zero
AppendCount_DashIsZero(p, count_field) ==
  IF count_field \in {<<"-">>, <<"#", "#", "#", "#", "#">>, <<"=", "=", "=", "=", "=">>}
    THEN [p EXCEPT !.counts = Append(p.counts, 0)]
  ELSE IF ParseInt(count_field) = None
    THEN p
    ELSE [p EXCEPT !.counts = Append(p.counts, ParseInt(count_field)[1])]

\* AppendCount without the except clause around int()
AppendCount_NoExcept(p, count_field) ==
  IF count_field \in {<<"-">>} THEN p
  ELSE IF count_field \in {<<"#", "#", "#", "#", "#">>, <<"=", "=", "=", "=", "=">>}
    THEN [p EXCEPT !.counts = Append(p.counts, 0)]
  ELSE IF ParseInt(count_field) = None
    THEN [p EXCEPT !.raised = Some([exc |-> "ValueError", line |-> 103])]
    ELSE [p EXCEPT !.counts = Append(p.counts, ParseInt(count_field)[1])]

\* the count field of a data line: '-', a sentinel, or int() under try/except
AppendCount(p, count_field) ==
  IF count_field \in {<<"-">>} THEN p
  ELSE IF count_field \in {<<"#", "#", "#", "#", "#">>, <<"=", "=", "=", "=", "=">>}
    THEN [p EXCEPT !.counts = Append(p.counts, 0)]
  ELSE IF ParseInt(count_field) = None
    THEN p    \* except ValueError: continue
    ELSE [p EXCEPT !.counts = Append(p.counts, ParseInt(count_field)[1])]

\* a line no regular expression matches: blank, annotation or data line
OnText(p, rec) ==
  LET stripped == Strip(rec.raw)
      parts == SplitColon(rec.raw, 2)
      count_field == Strip(parts[1])
      line_field == Strip(parts[2])
  IN IF p.current_line = None THEN p
     ELSE IF stripped = <<>> THEN p
     ELSE IF StartsWith(stripped, <<"c", "a", "l", "l">>)
             \/ StartsWith(stripped, <<"f", "u", "n", "c", "t", "i", "o", "n">>) THEN p
     ELSE IF Len(parts) < 3 THEN p
     ELSE IF ~IsDigit(line_field) \/ count_field = <<>> THEN p
     ELSE AppendCount(p, count_field)

\* one iteration of the for loop over the listing
ParseLine(p, rec) ==
  CASE rec.kind = "marker" -> OnMarker(p, rec)
    [] rec.kind = "branch_taken" -> OnBranchTaken(p, rec)
    [] rec.kind = "branch_never" -> OnBranchNever(p, rec)
    [] rec.kind = "text" -> OnText(p, rec)

\* ------------------------------------------------------------- aggregator
SetMin(S) == CHOOSE x \in S : \A y \in S : x <= y

\* the inner loop of compute_summary over one entry's branches
RECURSIVE CountBranches(_, _, _)
CountBranches(brs, ids, acc) ==
  IF ids = {} THEN acc
  ELSE LET b == SetMin(ids)
       IN CountBranches(brs, ids \ {b},
            [total |-> acc.total + 1,
             covered |-> acc.covered + (IF brs[b].pct > 0 THEN 1 ELSE 0)])

\* SummaryLoop counting the branches of every entry, executable or not
RECURSIVE SummaryLoop_AllBranches(_, _, _, _)
SummaryLoop_AllBranches(coverage, keys, line_totals, branch_totals) ==
  IF keys = {} THEN [lines |-> line_totals, branches |-> branch_totals]
  ELSE
    LET k == SetMin(keys)
        entry == coverage[k]
        hits == entry.hits
        bt == CountBranches(entry.branches, DOMAIN entry.branches, branch_totals)
    IN IF ~entry.executable
         THEN SummaryLoop_AllBranches(coverage, keys \ {k}, line_totals, bt)
         ELSE SummaryLoop_AllBranches(coverage, keys \ {k},
                [total |-> line_totals.total + 1,
                 covered |-> line_totals.covered
                               + (IF hits # None /\ hits[1] > 0 THEN 1 ELSE 0)],
                bt)

\* SummaryLoop taking every executable line for covered
RECURSIVE SummaryLoop_AnyHits(_, _, _, _)
SummaryLoop_AnyHits(coverage, keys, line_totals, branch_totals) ==
  IF keys = {} THEN [lines |-> line_totals, branches |-> branch_totals]
  ELSE
    LET k == SetMin(keys)
        entry == coverage[k]
    IN IF ~entry.executable
         THEN SummaryLoop_AnyHits(coverage, keys \ {k}, line_totals, branch_totals)
         ELSE SummaryLoop_AnyHits(coverage, keys \ {k},
                [total |-> line_totals.total + 1,
                 covered |-> line_totals.covered + 1],
                CountBranches(entry.branches, DOMAIN entry.branches, branch_totals))

\* the loop of compute_summary over coverage.values()
RECURSIVE SummaryLoop(_, _, _, _)
SummaryLoop(coverage, keys, line_totals, branch_totals) ==
  IF keys = {} THEN [lines |-> line_totals, branches |-> branch_totals]
  ELSE
    LET k == SetMin(keys)
        entry == coverage[k]
        hits == entry.hits
    IN IF ~entry.executable
         THEN SummaryLoop(coverage, keys \ {k}, line_totals, branch_totals)
         ELSE SummaryLoop(coverage, keys \ {k},
                [total |-> line_totals.total + 1,
                 covered |-> line_totals.covered
                               + (IF hits # None /\ hits[1] > 0 THEN 1 ELSE 0)],
                CountBranches(entry.branches, DOMAIN entry.branches, branch_totals))

compute_summary(coverage) ==
  SummaryLoop(coverage, DOMAIN coverage,
              [total |-> 0, covered |-> 0], [total |-> 0, covered |-> 0])

\* percent dividing without the guard for total = 0, which yields 0.0%
percent_NoGuard(covered, total) ==
  IF total = 0 THEN <<0, 0>>
  ELSE LET n == covered * 1000
           q == n \div total
           r == n % total
           tenths == IF 2 * r > total \/ (2 * r = total /\ q % 2 = 1) THEN q + 1 ELSE q
       IN <<tenths \div 10, tenths % 10>>

\* percent(covered, total): the text "<whole>.<tenth>%" as <<whole, tenth>>;
\* the quotient is rounded to one decimal, ties to even
percent(covered, total) ==
  IF total = 0 THEN <<100, 0>>
  ELSE LET n == covered * 1000
           q == n \div total
           r == n % total
           tenths == IF 2 * r > total \/ (2 * r = total /\ q % 2 = 1) THEN q + 1 ELSE q
       IN <<tenths \div 10, tenths % 10>>

\* --------------------------------------------------------------- renderers
\* coverage.get(idx, {"hits": None, "executable": False, "branches": {}})
GetEntry(coverage, idx) ==
  IF idx \in DOMAIN coverage THEN coverage[idx] ELSE NewEntry

\* BranchItems walking the branch ids from the highest down
RECURSIVE BranchItems_Descending(_, _)
BranchItems_Descending(brs, ids) ==
  IF ids = {} THEN <<>>
  ELSE LET b == CHOOSE x \in ids : \A y \in ids : x >= y
       IN <<[id |-> b, pct |-> brs[b].pct, detail |-> brs[b].detail]>>
            \o BranchItems_Descending(brs, ids \ {b})

\* [.. for branch_id in sorted(branches)]
RECURSIVE BranchItems(_, _)
BranchItems(brs, ids) ==
  IF ids = {} THEN <<>>
  ELSE LET b == SetMin(ids)
       IN <<[id |-> b, pct |-> brs[b].pct, detail |-> brs[b].detail]>>
            \o BranchItems(brs, ids \ {b})

\* JsonStatus asking for every branch, not any branch, to be at 0%
JsonStatus_AllZero(entry) ==
  LET branch_items == BranchItems(entry.branches, DOMAIN entry.branches)
  IN IF ~entry.executable THEN "noncode"
     ELSE IF entry.hits # None /\ entry.hits[1] > 0
       THEN IF branch_items # <<>>
               /\ \A i \in 1..Len(branch_items) : branch_items[i].pct = 0
              THEN "partial"
              ELSE "covered"
       ELSE "missed"

\* the status chosen by build_json_payload for one entry
JsonStatus(entry) ==
  LET branch_items == BranchItems(entry.branches, DOMAIN entry.branches)
  IN IF ~entry.executable THEN "noncode"
     ELSE IF entry.hits # None /\ entry.hits[1] > 0
       THEN IF branch_items # <<>>
               /\ \E i \in 1..Len(branch_items) : branch_items[i].pct = 0
              THEN "partial"
              ELSE "covered"
       ELSE "missed"

JsonLine(coverage, idx) ==
  LET entry == GetEntry(coverage, idx)
  IN [line |-> idx,
      hits |-> entry.hits,
      executable |-> entry.executable,
      status |-> JsonStatus(entry),
      branches |-> BranchItems(entry.branches, DOMAIN entry.branches)]

build_json_payload(coverage, lines) ==
  LET s == compute_summary(coverage)
  IN [summary |->
        [lines |-> [covered |-> s.lines.covered, total |-> s.lines.total,
                    percent |-> percent(s.lines.covered, s.lines.total)],
         branches |-> [covered |-> s.branches.covered, total |-> s.branches.total,
                       percent |-> percent(s.branches.covered, s.branches.total)]],
      lines |-> [idx \in 1..Len(lines) |-> JsonLine(coverage, idx)]]

\* CssClass calling a line partial only when no branch at all was taken
CssClass_NoneTaken(entry) ==
  LET brs == entry.branches
      branch_total == Cardinality(DOMAIN brs)
      branch_covered == Cardinality({b \in DOMAIN brs : brs[b].pct > 0})
  IN IF ~entry.executable THEN "nonexec"
     ELSE IF entry.hits # None /\ entry.hits[1] > 0
       THEN IF branch_total # 0 /\ branch_covered = 0
              THEN "partial"
              ELSE "covered"
       ELSE "missed"

\* the css class chosen by render_html for one entry
CssClass(entry) ==
  LET brs == entry.branches
      branch_total == Cardinality(DOMAIN brs)
      branch_covered == Cardinality({b \in DOMAIN brs : brs[b].pct > 0})
  IN IF ~entry.executable THEN "nonexec"
     ELSE IF entry.hits # None /\ entry.hits[1] > 0
       THEN IF branch_total # 0 /\ branch_covered < branch_total
              THEN "partial"
              ELSE "covered"
       ELSE "missed"

\* one <tr> of render_html: class, line number, hit cell and branch cell
HtmlRow(coverage, idx) ==
  LET entry == GetEntry(coverage, idx)
      brs == entry.branches
      cls == CssClass(entry)
  IN [cls |-> cls,
      line |-> idx,
      hits_display |-> IF cls = "nonexec" THEN <<"-">>
                       ELSE IF cls = "missed" THEN <<"0">>
                       ELSE <<"str", entry.hits[1]>>,
      branch_cell |-> IF DOMAIN brs = {} THEN <<"-">>
                      ELSE <<"of", Cardinality({b \in DOMAIN brs : brs[b].pct > 0}),
                             Cardinality(DOMAIN brs)>>]

render_html(coverage, lines) ==
  LET s == compute_summary(coverage)
  IN [line_percent |-> percent(s.lines.covered, s.lines.total),
      branch_percent |-> percent(s.branches.covered, s.branches.total),
      line_totals |-> s.lines,
      branch_totals |-> s.branches,
      rows |-> [idx \in 1..Len(lines) |-> HtmlRow(coverage, idx)]]

\* ------------------------------------------------- the solar data modules
\* a call that raised the exception e / that returned v
Raise(e) == [raised |-> Some(e), value |-> None]
Return(v) == [raised |-> None, value |-> Some(v)]

\* the columns of the Victron CSV the modules look at
Columns ==
  { "Date", "Yield(Wh)", "Consumption(Wh)", "Max. PV power(W)",
    "Max. PV voltage(V)", "Min. battery voltage(V)", "Max. battery voltage(V)" }

\* the columns whose values are kept; the values of the others are not
DataColumns == { "Date", "Yield(Wh)", "Consumption(Wh)" }

Dates == 1..MaxDate
YieldValues == { 0 - 100, 300 }
ConsumptionValues == { 0, 300 }

ColumnValues(c) ==
  CASE c = "Date" -> Dates
    [] c = "Yield(Wh)" -> YieldValues
    [] c = "Consumption(Wh)" -> ConsumptionValues

\* a frame has every column, or every column but one
ColumnSets == { Columns } \cup { Columns \ {c} : c \in Columns }

RowsOver(cols) ==
  { r \in [cols \cap DataColumns -> Dates \cup YieldValues \cup ConsumptionValues] :
      \A c \in cols \cap DataColumns : r[c] \in ColumnValues(c) }

\* pl.DataFrame: its columns and its rows in order
Frames ==
  UNION { { [columns |-> cols, rows |-> rows] :
              rows \in UNION { [1..n -> RowsOver(cols)] : n \in 0..MaxRows } } :
          cols \in ColumnSets }

\* what pl.read_csv finds at csv_path: text it cannot parse, or a frame
CsvContents ==
  { [parses |-> FALSE, frame |-> [columns |-> {}, rows |-> <<>>]] }
  \cup { [parses |-> TRUE, frame |-> f] : f \in Frames }

\* df[col].sum()
RECURSIVE SumColumn(_, _)
SumColumn(rows, col) ==
  IF rows = <<>> THEN 0 ELSE rows[1][col] + SumColumn(Tail(rows), col)

\* SolarPipeline.load on a pipeline whose df is old
load(old, content) ==
  IF ~content.parses
    THEN [df |-> old, out |-> Raise("ComputeError")]
  ELSE IF Len(content.frame.rows) = 0
    THEN [df |-> Some(content.frame), out |-> Raise("ValueError")]
    ELSE [df |-> Some(content.frame), out |-> Return(content.frame)]

\* if self.df is None: self.load()
EnsureLoaded(old, content) ==
  IF old = None THEN load(old, content)
  ELSE [df |-> old, out |-> Return(old[1])]

\* the dictionary summarize builds from the frame
SummaryData(frame) ==
  IF "Yield(Wh)" \notin frame.columns THEN Raise("ColumnNotFoundError")
  ELSE IF "Max. PV power(W)" \notin frame.columns THEN Raise("ColumnNotFoundError")
  ELSE IF frame.rows = <<>> THEN Raise("TypeError")    \* float(None)
  ELSE IF { "Max. PV voltage(V)", "Min. battery voltage(V)",
            "Max. battery voltage(V)" } \ frame.columns # {}
    THEN Raise("ColumnNotFoundError")
    ELSE Return([total_yield_wh |-> SumColumn(frame.rows, "Yield(Wh)"),
                 total_days |-> Len(frame.rows)])

\* SolarPipeline.summarize
summarize(old, content) ==
  LET l == EnsureLoaded(old, content)
  IN IF l.out.raised # None THEN l
     ELSE IF l.df = None THEN [df |-> l.df, out |-> Raise("RuntimeError")]
     ELSE [df |-> l.df, out |-> SummaryData(l.df[1])]

\* DateMask leaving out the rows of the end date
DateMask_EndExclusive(date, start, end) == date >= start /\ date < end

\* (df["Date"] >= start) & (df["Date"] <= end)
DateMask(date, start, end) == date >= start /\ date <= end

\* SolarPipeline.filter_by_date
filter_by_date(old, content, start, end) ==
  LET l == EnsureLoaded(old, content)
  IN IF l.out.raised # None THEN l
     ELSE IF l.df = None THEN [df |-> l.df, out |-> Raise("RuntimeError")]
     ELSE IF "Date" \notin l.df[1].columns
       THEN [df |-> l.df, out |-> Raise("ColumnNotFoundError")]
       ELSE LET Keep(r) == DateMask(r["Date"], start, end)
            IN [df |-> l.df,
                out |-> Return([columns |-> l.df[1].columns,
                                rows |-> SelectSeq(l.df[1].rows, Keep)])]

ValidationResult(name, passed) == [check_name |-> name, passed |-> passed]

\* DataQualityReport over the results of the checks
DataQualityReport(checks) ==
  LET passed_count == Cardinality({ i \in 1..Len(checks) : checks[i].passed })
  IN [total_checks |-> Len(checks),
      passed_checks |-> passed_count,
      failed_checks |-> Len(checks) - passed_count,
      results |-> checks]

\* validate_solar_data; the frames hold no null, and the battery voltages,
\* which are not kept, are taken to be in range
validate_solar_data(frame) ==
  LET required_columns == { "Date", "Yield(Wh)", "Max. PV power(W)", "Max. PV voltage(V)" }
      missing_columns == required_columns \ frame.columns
      IsNegative(r) == r["Yield(Wh)"] < 0
      check1 == <<ValidationResult("required_columns_exist", missing_columns = {})>>
      check2 == <<ValidationResult("yield_no_nulls", TRUE)>>
      check3 == <<ValidationResult("yield_non_negative", Len(SelectSeq(frame.rows, IsNegative)) = 0)>>
      check4 == <<ValidationResult("date_format_valid", "Date" \in frame.columns)>>
      check5 == IF "Min. battery voltage(V)" \in frame.columns
                  THEN <<ValidationResult("battery_voltage_range", TRUE)>>
                  ELSE <<>>
  IN IF "Yield(Wh)" \notin frame.columns
       THEN Raise("ColumnNotFoundError")    \* df["Yield(Wh)"], outside any try
       ELSE Return(DataQualityReport(check1 \o check2 \o check3 \o check4 \o check5))

\* a float quotient, kept as the fraction; None stands for ZeroDivisionError
Divide(num, den) == IF den = 0 THEN None ELSE Some([num |-> num, den |-> den])
Zero == Some([num |-> 0, den |-> 1])
IsZero(q) == q[1].num = 0

\* solar_offset_percent dividing whatever the consumption is
solar_offset_percent_NoGuard(total_solar_wh, total_consumption_wh) ==
  Divide(total_solar_wh * 100, total_consumption_wh)

\* (total_solar_kwh / total_consumption_kwh * 100) if total_consumption_kwh > 0 else 0
solar_offset_percent(total_solar_wh, total_consumption_wh) ==
  IF total_consumption_wh > 0
    THEN Divide(total_solar_wh * 100, total_consumption_wh)
    ELSE Zero

\* generate_cost_report at the default rate of 0.14 USD per kWh; energies
\* in Wh, money in units of 0.00001 USD, quotients as fractions
generate_cost_report(frame) ==
  IF { "Yield(Wh)", "Consumption(Wh)" } \ frame.columns # {}
    THEN Raise("ValueError")
  ELSE
    LET total_solar_wh == SumColumn(frame.rows, "Yield(Wh)")
        total_consumption_wh == SumColumn(frame.rows, "Consumption(Wh)")
        solar_value_usd == total_solar_wh * rate_per_kwh
        consumption_cost_usd == total_consumption_wh * rate_per_kwh
        net_savings_usd == solar_value_usd - consumption_cost_usd
        offset == solar_offset_percent(total_solar_wh, total_consumption_wh)
        days == Len(frame.rows)
    IN IF offset = None THEN Raise("ZeroDivisionError")
       ELSE Return(
         [total_solar_wh |-> total_solar_wh,
          total_consumption_wh |-> total_consumption_wh,
          solar_value_usd |-> solar_value_usd,
          consumption_cost_usd |-> consumption_cost_usd,
          net_savings_usd |-> net_savings_usd,
          solar_offset_percent |-> offset,
          days_analyzed |-> days,
          avg_daily_solar_wh |-> IF days > 0 THEN Divide(total_solar_wh, days) ELSE Zero,
          avg_daily_consumption_wh |->
            IF days > 0 THEN Divide(total_consumption_wh, days) ELSE Zero,
          projected_annual_savings_usd |->
            IF days > 0 THEN Divide(net_savings_usd * 365, days) ELSE Zero])

\* format_cost_report: the text, by the fields that decide its wording
format_cost_report(report) ==
  IF IsZero(report.projected_annual_savings_usd)
    THEN Raise("ZeroDivisionError")    \* 1000 / report.projected_annual_savings_usd
    ELSE Return([days_analyzed |-> report.days_analyzed,
                 net_positive |-> report.net_savings_usd > 0,
                 low_output |-> report.total_solar_wh < 500 * report.days_analyzed])

\* save_cost_report: wrote says whether output_path.write_text was reached
save_cost_report(frame) ==
  LET report == generate_cost_report(frame)
      text == IF report.raised = None THEN format_cost_report(report.value[1])
              ELSE report
  IN [out |-> IF text.raised = None THEN Return("None") ELSE Raise(text.raised[1]),
      wrote |-> text.raised = None]

\* ------------------------------------------------------------ the program
VARIABLES
  pc,            \* where main is
  nread,         \* records of the listing consumed so far
  results,       \* parse_gcov: the coverage map
  current_line,  \* parse_gcov: the active line, or None
  counts,        \* parse_gcov: hit counts of the pending block
  branches,      \* parse_gcov: branch records of the pending block
  cobol_lines,   \* main: the physical lines of the source text
  html_report,   \* main: what render_html returned
  payload,       \* main: what build_json_payload returned
  summary,       \* main: what compute_summary returned, with the printed percents
  error,         \* the exception that ended main, with the line of main or
                 \* parse_gcov that raised it; None while there is none
  args_json,     \* whether --json was given, None until main tests args.json
  disk,          \* what main did to the file system so far, in order
  df,            \* SolarPipeline: self.df, None until a load assigned it
  call,          \* the latest call into the solar data modules and how it
                 \* ended, None before the first
  \* history of the listing read so far, kept to state the properties
  block,         \* "none" before any marker, else by the latest marker: "target",
                 \* "other", or "other_data" once a count or branch record followed it
  marked,        \* the line number the latest marker names, None before any marker
  mentioned,     \* line numbers named by markers of the target file
  seenCounts,    \* per line: values of the count tokens read under its target markers
  highestSeen,   \* per line and branch id: the highest percentage of the branch
                 \* records read under its target markers, None when there was none
  dropped,       \* within the current target block: "yes" once a malformed data line
                 \* was read, "then_count" once a count token was read after it
  filtered,      \* parser state over the listing without its non-target blocks
  wellformed     \* parser state over the listing without its malformed data lines

parser == <<results, current_line, counts, branches>>
outputs == <<cobol_lines, html_report, payload, summary>>
files == <<args_json, disk>>
solar == <<df, call>>
history == <<block, marked, mentioned, seenCounts, highestSeen, dropped,
             filtered, wellformed>>
vars == <<pc, nread, results, current_line, counts, branches,
          cobol_lines, html_report, payload, summary, error, args_json, disk,
          df, call,
          block, marked, mentioned, seenCounts, highestSeen, dropped,
          filtered, wellformed>>

Locals == [results |-> results, current_line |-> current_line,
           counts |-> counts, branches |-> branches, raised |-> None]

SetLocals(p) ==
  /\ results' = p.results
  /\ current_line' = p.current_line
  /\ counts' = p.counts
  /\ branches' = p.branches

Init ==
  /\ pc = "parse"
  /\ nread = 0
  /\ results = EmptyDict
  /\ current_line = None
  /\ counts = <<>>
  /\ branches = EmptyDict
  /\ cobol_lines = <<>>
  /\ html_report = None
  /\ payload = None
  /\ summary = None
  /\ error = None
  /\ args_json = None
  /\ disk = <<>>
  /\ df = None
  /\ call = None
  /\ block = "none"
  /\ marked = None
  /\ mentioned = {}
  /\ dropped = "no"
  /\ seenCounts = [l \in Lines |-> {}]
  /\ highestSeen = [l \in Lines |-> [b \in BranchIds |-> None]]
  /\ filtered = ParserInit
  /\ wellformed = ParserInit

\* the percentage a branch record stands for
BranchPercent(rec) == IF rec.kind = "branch_taken" THEN rec.pct ELSE 0

\* what reading rec adds to the history
Record(rec) ==
  /\ block' = IF rec.kind = "marker" THEN (IF rec.target THEN "target" ELSE "other")
              ELSE IF block \in {"other", "other_data"}
                      /\ (rec.kind # "text" \/ rec.count # None)
                THEN "other_data"
                ELSE block
  /\ marked' = IF rec.kind = "marker" THEN Some(rec.line) ELSE marked
  /\ mentioned' = IF rec.kind = "marker" /\ rec.target
                    THEN mentioned \cup {rec.line} ELSE mentioned
  /\ seenCounts' = IF rec.kind = "text" /\ rec.count # None /\ block = "target"
                     THEN [seenCounts EXCEPT ![marked[1]] = @ \cup {rec.count[1]}]
                     ELSE seenCounts
  /\ highestSeen' =
       IF rec.kind \in {"branch_taken", "branch_never"} /\ block = "target"
         THEN [highestSeen EXCEPT ![marked[1]][rec.id] =
                 IF @ = None \/ BranchPercent(rec) > @[1] THEN Some(BranchPercent(rec)) ELSE @]
         ELSE highestSeen
  /\ dropped' = IF rec.kind = "marker" THEN "no"
                ELSE IF rec.kind # "text" \/ block # "target" THEN dropped
                ELSE IF rec.malformed /\ dropped = "no" THEN "yes"
                ELSE IF rec.count # None /\ dropped = "yes" THEN "then_count"
                ELSE dropped
  /\ filtered' = IF (rec.kind = "marker" /\ ~rec.target)
                    \/ (rec.kind # "marker" /\ block \in {"other", "other_data"})
                   THEN filtered
                   ELSE ParseLine(filtered, rec)
  /\ wellformed' = IF rec.kind = "text" /\ rec.malformed
                     THEN wellformed
                     ELSE ParseLine(wellformed, rec)

\* one iteration of "for raw_line in handle" on the record rec
Read(rec) ==
  /\ pc = "parse"
  /\ nread < MaxRecords
  /\ nread' = nread + 1
  /\ LET p == ParseLine(Locals, rec)
     IN /\ SetLocals(p)
        /\ error' = p.raised
        /\ pc' = IF p.raised = None THEN "parse" ELSE "failed"
  /\ Record(rec)
  /\ UNCHANGED <<outputs, files, solar>>

ReadMarker == \E rec \in MarkerLines : Read(rec)
ReadBranchTaken == \E rec \in BranchTakenLines : Read(rec)
ReadBranchNever == \E rec \in BranchNeverLines : Read(rec)
ReadText == \E rec \in TextLines : Read(rec)

\* EndOfInput with main making the directory of --output as soon as
\* parse_gcov has returned
EndOfInput_ThenMkdir ==
  /\ pc = "parse"
  /\ SetLocals(flush(Locals))
  /\ filtered' = flush(filtered)
  /\ wellformed' = flush(wellformed)
  /\ pc' = "read_source"
  /\ disk' = Append(disk, "mkdir_output")
  /\ UNCHANGED <<nread, outputs, error, args_json, solar, block, marked, mentioned,
                 seenCounts, highestSeen, dropped>>

\* end of the listing: the final flush, and parse_gcov returns results
EndOfInput ==
  /\ pc = "parse"
  /\ SetLocals(flush(Locals))
  /\ filtered' = flush(filtered)
  /\ wellformed' = flush(wellformed)
  /\ pc' = "read_source"
  /\ UNCHANGED <<nread, outputs, error, files, solar, block, marked, mentioned,
                 seenCounts, highestSeen, dropped>>

\* cobol_lines = args.source.read_text().splitlines(); parse_gcov's frame is
\* gone and the listing is closed, so its history is kept no longer, except
\* for the lines its target markers named
ReadSource ==
  /\ pc = "read_source"
  /\ \E n \in 0..MaxSourceLines : cobol_lines' = [i \in 1..n |-> "text"]
  /\ pc' = "render_html"
  /\ nread' = 0
  /\ block' = "none"
  /\ marked' = None
  /\ seenCounts' = [l \in Lines |-> {}]
  /\ highestSeen' = [l \in Lines |-> [b \in BranchIds |-> None]]
  /\ dropped' = "no"
  /\ filtered' = ParserInit
  /\ wellformed' = ParserInit
  /\ UNCHANGED <<parser, html_report, payload, summary, error, files, solar, mentioned>>

\* main ends with an uncaught exception raised at the given line: the
\* process exits, its locals are gone, the file system stays as it is
Exit(exc, line) ==
  /\ pc' = "failed"
  /\ error' = Some([exc |-> exc, line |-> line])
  /\ nread' = 0
  /\ SetLocals(ParserInit)
  /\ cobol_lines' = <<>>
  /\ html_report' = None
  /\ payload' = None
  /\ summary' = None
  /\ block' = "none"
  /\ marked' = None
  /\ mentioned' = {}
  /\ seenCounts' = [l \in Lines |-> {}]
  /\ highestSeen' = [l \in Lines |-> [b \in BranchIds |-> None]]
  /\ dropped' = "no"
  /\ filtered' = ParserInit
  /\ wellformed' = ParserInit
  /\ UNCHANGED solar

\* gcov_path.open() fails: the listing is missing or unreadable
GcovUnreadable ==
  /\ pc = "parse"
  /\ nread = 0
  /\ Exit("OSError", 24)
  /\ UNCHANGED files

\* args.source.read_text() fails: the source is missing or unreadable
SourceUnreadable ==
  /\ pc = "read_source"
  /\ Exit("OSError", 314)
  /\ UNCHANGED files

\* args.output.parent.mkdir(); html_report = render_html(coverage,
\* cobol_lines, title); args.output.write_text(html_report)
RenderHtml ==
  /\ pc = "render_html"
  /\ html_report' = Some(render_html(results, cobol_lines))
  /\ disk' = disk \o <<"mkdir_output", "write_html">>
  /\ pc' = "write_json"
  /\ UNCHANGED <<nread, parser, cobol_lines, payload, summary, error, args_json, solar, history>>

\* the directory of --output cannot be made, or the HTML file not opened
OutputUnwritable ==
  /\ pc = "render_html"
  /\ \/ Exit("OSError", 316) /\ disk' = disk
     \/ Exit("OSError", 318) /\ disk' = Append(disk, "mkdir_output")
  /\ UNCHANGED args_json

\* if args.json: args.json.parent.mkdir(); payload = build_json_payload(
\* coverage, cobol_lines); args.json.write_text(json.dumps(payload))
WriteJson ==
  /\ pc = "write_json"
  /\ args_json' = Some(TRUE)
  /\ payload' = Some(build_json_payload(results, cobol_lines))
  /\ disk' = disk \o <<"mkdir_json", "write_json">>
  /\ pc' = "print_summary"
  /\ UNCHANGED <<nread, parser, cobol_lines, html_report, summary, error, solar, history>>

\* SkipJson writing the payload although --json was not given
SkipJson_WritesAnyway ==
  /\ pc = "write_json"
  /\ args_json' = Some(FALSE)
  /\ payload' = Some(build_json_payload(results, cobol_lines))
  /\ disk' = disk \o <<"mkdir_json", "write_json">>
  /\ pc' = "print_summary"
  /\ UNCHANGED <<nread, parser, cobol_lines, html_report, summary, error, solar, history>>

\* if args.json: is false, --json was not given
SkipJson ==
  /\ pc = "write_json"
  /\ args_json' = Some(FALSE)
  /\ pc' = "print_summary"
  /\ UNCHANGED <<nread, parser, outputs, error, disk, solar, history>>

\* --json was given, and the directory of the JSON file cannot be made or
\* the JSON file not opened
JsonUnwritable ==
  /\ pc = "write_json"
  /\ args_json' = Some(TRUE)
  /\ \/ Exit("OSError", 321) /\ disk' = disk
     \/ Exit("OSError", 323) /\ disk' = Append(disk, "mkdir_json")

\* summary = compute_summary(coverage) and the two printed lines
PrintSummary ==
  /\ pc = "print_summary"
  /\ LET s == compute_summary(results)
     IN summary' = Some([lines |-> s.lines,
                         branches |-> s.branches,
                         line_percent |-> percent(s.lines.covered, s.lines.total),
                         branch_percent |-> percent(s.branches.covered, s.branches.total)])
  /\ pc' = "done"
  /\ UNCHANGED <<nread, parser, cobol_lines, html_report, payload, error, files, solar, history>>

Next ==
  \/ ReadMarker
  \/ ReadBranchTaken
  \/ ReadBranchNever
  \/ ReadText
  \/ EndOfInput
  \/ GcovUnreadable
  \/ ReadSource
  \/ SourceUnreadable
  \/ RenderHtml
  \/ OutputUnwritable
  \/ WriteJson
  \/ SkipJson
  \/ JsonUnwritable
  \/ PrintSummary

Spec == Init /\ [][Next]_vars

\* ------------------------------------------- the solar data modules, called
\* the renderer's variables, which no call into the solar modules touches
renderer == <<pc, nread, parser, outputs, error, files, history>>

\* a call of op with args on a pipeline holding before, ending as r did
Called(op, args, before, r, wrote) ==
  [op |-> op, args |-> args, loaded |-> before # None, before |-> before,
   raised |-> r.raised, value |-> r.value, wrote |-> wrote]

\* what the file at csv_path can hold when a call reads it; the file is not
\* read by a call that finds the data loaded
Readable == IF df = None THEN CsvContents ELSE { CHOOSE c \in CsvContents : ~c.parses }

\* pipeline.load(), on a pipeline no load has given a frame yet
Load ==
  /\ df = None
  /\ \E content \in CsvContents :
       LET l == load(df, content)
       IN /\ df' = l.df
          /\ call' = Some(Called("load", <<>>, df, l.out, FALSE))
  /\ UNCHANGED renderer

\* pipeline.summarize()
Summarize ==
  /\ \E content \in Readable :
       LET r == summarize(df, content)
       IN /\ df' = r.df
          /\ call' = Some(Called("summarize", <<>>, df, r.out, FALSE))
  /\ UNCHANGED renderer

\* pipeline.filter_by_date(start, end)
FilterByDate ==
  /\ \E content \in Readable, start \in Dates, end \in Dates :
       LET r == filter_by_date(df, content, start, end)
       IN /\ df' = r.df
          /\ call' = Some(Called("filter_by_date", <<start, end>>, df, r.out, FALSE))
  /\ UNCHANGED renderer

\* validate_solar_data(pipeline.df)
Validate ==
  /\ df # None
  /\ call' = Some(Called("validate_solar_data", <<>>, df, validate_solar_data(df[1]), FALSE))
  /\ UNCHANGED <<df, renderer>>

\* generate_cost_report(pipeline.df)
GenerateCostReport ==
  /\ df # None
  /\ call' = Some(Called("generate_cost_report", <<>>, df, generate_cost_report(df[1]), FALSE))
  /\ UNCHANGED <<df, renderer>>

\* save_cost_report(pipeline.df, output_path)
SaveCostReport ==
  /\ df # None
  /\ LET r == save_cost_report(df[1])
     IN call' = Some(Called("save_cost_report", <<>>, df, r.out, r.wrote))
  /\ UNCHANGED <<df, renderer>>

SolarNext ==
  \/ Load
  \/ Summarize
  \/ FilterByDate
  \/ Validate
  \/ GenerateCostReport
  \/ SaveCostReport

SolarSpec == Init /\ [][SolarNext]_vars

\* --------------------------------------------------------------- properties
SetMax(S) == CHOOSE x \in S : \A y \in S : x >= y

\* parse_gcov has just returned results to main
Returned == pc = "read_source"

\* C1: once parse_gcov has returned, every line that received a count token
\* under a marker of the target file is executable and its hits are the
\* maximum of the count values seen for it ('#####' and '=====' count as 0).
C1_HitsAreMaximum ==
  Returned =>
    \A l \in Lines :
      seenCounts[l] # {} =>
        /\ l \in DOMAIN results
        /\ results[l].executable
        /\ results[l].hits = Some(SetMax(seenCounts[l]))

C1_Witness ==
  /\ Returned
  /\ {3, 5} \subseteq seenCounts[1]
  /\ results[1].hits = Some(5)

\* C2: in the returned map a line is executable exactly when a count token
\* was read while it was the active line; blocks of '-' fields, branch
\* records, annotations and malformed lines leave it non-executable.
C2_ExecutableIffCounted ==
  Returned =>
    \A l \in Lines : GetEntry(results, l).executable <=> seenCounts[l] # {}

C2_Witness ==
  /\ Returned
  /\ DOMAIN results = {1}
  /\ ~results[1].executable
  /\ highestSeen[1][0] # None
  /\ dropped = "yes"

\* C3: once parse_gcov has returned, the percentage stored for a branch id of
\* a line is the highest percentage among all branch records read for that
\* id on that line, in whatever order and block they came.
C3_BranchIsHighestSeen ==
  Returned =>
    \A l \in Lines : \A b \in BranchIds :
      highestSeen[l][b] # None =>
        /\ l \in DOMAIN results
        /\ b \in DOMAIN results[l].branches
        /\ results[l].branches[b].pct = highestSeen[l][b][1]

\* C4: records read under a marker of another file change neither the
\* accumulator nor the map; the returned map is the map of the listing
\* without its non-target blocks, and only lines named by target markers
\* are keys of it.
C4_OtherFilesExcluded ==
  /\ pc \in {"parse", "read_source"} =>
       flush(Locals).results = flush(filtered).results
  /\ Returned => results = filtered.results
  /\ DOMAIN results \subseteq mentioned
  /\ (block \in {"other", "other_data"} /\ pc = "parse") =>
       /\ current_line = None
       /\ counts = <<>>
       /\ branches = EmptyDict
       /\ DOMAIN results = mentioned

C4_Witness ==
  /\ Returned
  /\ block = "other_data"
  /\ marked = Some(2)
  /\ DOMAIN results = {1}
  /\ results[1].executable

\* C5: parse_gcov never raises; a malformed data line leaves the accumulator
\* and the map as they were, so that the parser is at every point where it
\* would be had the malformed lines not been in the listing, and the
\* records after them are processed.
C5_MalformedDropped ==
  /\ error # None => error[1].line \notin 50..105
  /\ pc \in {"parse", "read_source"} => Locals = wellformed

C5_Witness ==
  /\ Returned
  /\ dropped = "then_count"
  /\ DOMAIN results = {1}
  /\ results[1].hits = Some(3)

\* the branch percentages of an entry
BranchPcts(entry) == { entry.branches[b].pct : b \in DOMAIN entry.branches }
PositiveHits(entry) == entry.hits # None /\ entry.hits[1] > 0

\* C6: build_json_payload gives a line the status noncode when it is not
\* executable; covered when executable with hits > 0 and no branch at 0%;
\* partial when executable with hits > 0 and a branch at 0%; missed when
\* executable with hits 0 or null.
C6_JsonStatusRules ==
  payload # None =>
    \A idx \in 1..Len(cobol_lines) :
      LET e == GetEntry(results, idx)
          st == payload[1].lines[idx].status
      IN /\ st \in {"noncode", "covered", "partial", "missed"}
         /\ ~e.executable => st = "noncode"
         /\ (e.executable /\ PositiveHits(e) /\ \A q \in BranchPcts(e) : q > 0)
              => st = "covered"
         /\ (e.executable /\ PositiveHits(e) /\ 0 \in BranchPcts(e))
              => st = "partial"
         /\ (e.executable /\ (e.hits = None \/ e.hits = Some(0)))
              => st = "missed"

C6_Witness ==
  /\ payload # None
  /\ Len(cobol_lines) >= 1
  /\ 1 \in DOMAIN results
  /\ results[1].hits = Some(5)
  /\ BranchPcts(results[1]) = {0, 100}
  /\ payload[1].lines[1].status = "partial"

\* the status a css class of render_html stands for
StatusOfClass(cls) == IF cls = "nonexec" THEN "noncode" ELSE cls

\* C7: for every returned map and every physical line, the class of the
\* HTML row and the status of the JSON entry are the same classification.
C7_HtmlAgreesWithJson ==
  (html_report # None /\ payload # None) =>
    \A idx \in 1..Len(cobol_lines) :
      StatusOfClass(html_report[1].rows[idx].cls) = payload[1].lines[idx].status

C7_Witness ==
  /\ html_report # None
  /\ payload # None
  /\ Len(cobol_lines) >= 2
  /\ html_report[1].rows[1].cls = "partial"
  /\ payload[1].lines[1].status = "partial"
  /\ BranchPcts(results[1]) = {0, 50}
  /\ html_report[1].rows[2].cls = "nonexec"

ExecutableKeys == { k \in DOMAIN results : results[k].executable }
BranchEntries(keys) == { <<k, b>> \in keys \X BranchIds : b \in DOMAIN results[k].branches }
TakenEntries(keys) == { kb \in BranchEntries(keys) : results[kb[1]].branches[kb[2]].pct > 0 }

\* C8: compute_summary counts the executable entries as lines.total, those
\* with positive hits as lines.covered, the branch entries of executable
\* lines as branches.total and those above 0% as branches.covered.
C8_SummaryCounts ==
  summary # None =>
    /\ summary[1].lines.total = Cardinality(ExecutableKeys)
    /\ summary[1].lines.covered =
         Cardinality({ k \in ExecutableKeys : PositiveHits(results[k]) })
    /\ summary[1].branches.total = Cardinality(BranchEntries(ExecutableKeys))
    /\ summary[1].branches.covered = Cardinality(TakenEntries(ExecutableKeys))

C8_Witness ==
  /\ summary # None
  /\ summary[1].lines = [total |-> 1, covered |-> 1]
  /\ summary[1].branches = [total |-> 2, covered |-> 1]

\* C9 as stated: branches.total is the number of branch entries over all
\* lines of the map, lines without a count token included, and
\* branches.covered the number of those above 0%.
C9_AllBranchEntriesCounted ==
  summary # None =>
    /\ summary[1].branches.total = Cardinality(BranchEntries(DOMAIN results))
    /\ summary[1].branches.covered = Cardinality(TakenEntries(DOMAIN results))

\* C9 amended: the branch entries of lines without a count token are left
\* out: branches.total and branches.covered are the counts over all lines
\* less the counts over the non-executable lines.
C9_NonExecutableBranchesSkipped ==
  summary # None =>
    LET skipped == DOMAIN results \ ExecutableKeys
    IN /\ summary[1].branches.total + Cardinality(BranchEntries(skipped))
            = Cardinality(BranchEntries(DOMAIN results))
       /\ summary[1].branches.covered + Cardinality(TakenEntries(skipped))
            = Cardinality(TakenEntries(DOMAIN results))

C9_Witness ==
  /\ summary # None
  /\ TakenEntries(DOMAIN results \ ExecutableKeys) # {}
  /\ ExecutableKeys # {}

\* C10: covered <= total for lines and for branches, the percent of a zero
\* total is 100.0%, and a map without executable line gives lines 0 of 0 at
\* 100.0% with no error.
C10_TotalsAndVacuousPercent ==
  summary # None =>
    /\ summary[1].lines.covered <= summary[1].lines.total
    /\ summary[1].branches.covered <= summary[1].branches.total
    /\ summary[1].lines.total = 0 => summary[1].line_percent = <<100, 0>>
    /\ summary[1].branches.total = 0 => summary[1].branch_percent = <<100, 0>>
    /\ ExecutableKeys = {} =>
         /\ summary[1].lines = [total |-> 0, covered |-> 0]
         /\ summary[1].line_percent = <<100, 0>>
         /\ error = None

C10_Witness ==
  /\ summary # None
  /\ DOMAIN results # {}
  /\ ExecutableKeys = {}
  /\ summary[1].line_percent = <<100, 0>>

\* C11: the payload has one entry per physical line, numbered 1..N in
\* increasing order, each with its branches in increasing order of id; a
\* line no target marker names is non-executable with null hits, no branch
\* and status noncode.
C11_PayloadLines ==
  payload # None =>
    LET lines == payload[1].lines
    IN /\ Len(lines) = Len(cobol_lines)
       /\ \A i \in 1..Len(lines) :
            /\ lines[i].line = i
            /\ \A j \in 1..Len(lines[i].branches), k \in 1..Len(lines[i].branches) :
                 j < k => lines[i].branches[j].id < lines[i].branches[k].id
            /\ { lines[i].branches[j].id : j \in 1..Len(lines[i].branches) }
                 = DOMAIN GetEntry(results, i).branches
            /\ i \notin mentioned =>
                 /\ ~lines[i].executable
                 /\ lines[i].hits = None
                 /\ lines[i].branches = <<>>
                 /\ lines[i].status = "noncode"

C11_Witness ==
  /\ payload # None
  /\ Len(cobol_lines) = 2
  /\ mentioned = {1}
  /\ Len(payload[1].lines[1].branches) = 2
  /\ payload[1].lines[2].status = "noncode"

\* C13: in every entry of the map hits is null or a non-negative integer.
C13_HitsNonNegative ==
  \A l \in DOMAIN results : results[l].hits = None \/ results[l].hits[1] >= 0

\* ------------------------------------------------- the merge of blocks
\* a marker of the target file naming line l
MarkerOf(l) ==
  [kind |-> "marker", line |-> l, path |-> <<"SOLARCOST.cob">>,
   target |-> TRUE, count |-> None]

\* data records a block of the target file can hold
DataLines == CountLines \cup BranchTakenLines \cup BranchNeverLines

\* p after the data lines of q's pending block were read under p's active
\* marker: what they leave in counts and branches depends on them alone
Resume(p, q) == [p EXCEPT !.counts = q.counts, !.branches = q.branches]

\* p, whose block is pending, after a copy of that block (its marker, then
\* its data lines) was read as well
ParseCopy(p) == Resume(ParseLine(p, MarkerOf(p.current_line[1])), p)

\* what a block holding the one data line rec leaves in counts and branches
BlockOf(rec) ==
  LET p == ParseLine(ParseLine(ParserInit, MarkerOf(1)), rec)
  IN [counts |-> p.counts, branches |-> p.branches]

\* the blocks of one data line
DataBlocks == { BlockOf(rec) : rec \in DataLines }

\* p, whose block is pending, after one more block of the same line, blk,
\* up to the end of the listing
InOrder(p, blk) ==
  flush(Resume(ParseLine(p, MarkerOf(p.current_line[1])), blk))

\* the same two blocks read the other way round: from the map as it was
\* when the pending block began, blk, then the pending block
Swapped(p, blk) ==
  LET before == [p EXCEPT !.current_line = None, !.counts = <<>>,
                          !.branches = EmptyDict]
      first == Resume(ParseLine(before, MarkerOf(p.current_line[1])), blk)
  IN flush(Resume(ParseLine(first, MarkerOf(p.current_line[1])), p))

\* parse_gcov alone, on listings made of blocks of one line of the target
\* file: markers naming line 1 and the data lines under them. No history is
\* kept.
ReadBlockLine(rec) ==
  /\ pc = "parse"
  /\ nread < MaxRecords
  /\ nread' = nread + 1
  /\ SetLocals(ParseLine(Locals, rec))
  /\ UNCHANGED <<pc, outputs, error, files, solar, history>>

ReadBlockMarker == ReadBlockLine(MarkerOf(1))
ReadBlockData == \E rec \in DataLines : ReadBlockLine(rec)

MergeNext == ReadBlockMarker \/ ReadBlockData

MergeSpec == Init /\ [][MergeNext]_vars

\* per branch id, the percentage an entry holds
PctOf(entry) == [b \in DOMAIN entry.branches |-> entry.branches[b].pct]

\* C12: a block followed by an identical copy of it leaves the same map,
\* hence the same hits, executable flag and branches for its line, as the
\* block read once.
C12_MergeIdempotent ==
  (pc = "parse" /\ current_line # None) =>
    flush(ParseCopy(Locals)).results = flush(Locals).results

C12_Witness ==
  /\ pc = "parse"
  /\ current_line = Some(1)
  /\ counts = <<5>>
  /\ DOMAIN branches = {0}
  /\ flush(ParseCopy(Locals)).results[1].hits = Some(5)
  /\ DOMAIN flush(ParseCopy(Locals)).results[1].branches = {0}

\* C19: the flush of a block without a count token leaves hits and the
\* executable flag of its line as they were (null and false for a line not
\* yet in the map) and changes no other line.
C19_NoCountKeepsHits ==
  (pc = "parse" /\ current_line # None /\ counts = <<>>) =>
    LET line == current_line[1]
        old == IF line \in DOMAIN results THEN results[line] ELSE NewEntry
        new == flush(Locals).results
    IN /\ new[line].hits = old.hits
       /\ new[line].executable = old.executable
       /\ line \notin DOMAIN results =>
            new[line].hits = None /\ ~new[line].executable
       /\ \A l \in DOMAIN results \ {line} : new[l] = results[l]

C19_Witness ==
  /\ pc = "parse"
  /\ current_line = Some(1)
  /\ counts = <<>>
  /\ 1 \in DOMAIN results
  /\ results[1].hits = Some(5)
  /\ DOMAIN results[1].branches = {}
  /\ DOMAIN flush(Locals).results[1].branches = {0}

\* C20: two blocks of the same line give the same entry, detail text of
\* every branch included, whichever is read first.
C20_MergeCommutative ==
  (pc = "parse" /\ current_line # None) =>
    \A blk \in DataBlocks :
      InOrder(Locals, blk).results[current_line[1]]
        = Swapped(Locals, blk).results[current_line[1]]

\* C20, amended: two blocks of the same line give the same hits, the same
\* executable flag and, for every branch id, the same percentage whichever
\* is read first.
C20_CommutativeUpToDetail ==
  (pc = "parse" /\ current_line # None) =>
    \A blk \in DataBlocks :
      LET ab == InOrder(Locals, blk).results[current_line[1]]
          ba == Swapped(Locals, blk).results[current_line[1]]
      IN /\ ab.hits = ba.hits
         /\ ab.executable = ba.executable
         /\ PctOf(ab) = PctOf(ba)

C20_Witness ==
  /\ pc = "parse"
  /\ current_line = Some(1)
  /\ counts = <<3>>
  /\ DOMAIN branches = {0}
  /\ branches[0].detail = NeverDetail(0)
  /\ \E blk \in DataBlocks :
       /\ DOMAIN blk.branches = {0}
       /\ blk.branches[0].detail = TakenDetail(0, 0)
       /\ InOrder(Locals, blk).results[1].branches[0].detail = NeverDetail(0)
       /\ Swapped(Locals, blk).results[1].branches[0].detail = TakenDetail(0, 0)

\* how many times main did the file-system operation op
Times(op) == Cardinality({ i \in 1..Len(disk) : disk[i] = op })

\* C14: a run that completes has written the HTML file exactly once and the
\* JSON file exactly once when --json was given and not at all otherwise;
\* no JSON write precedes the HTML write, and a run that fails after the
\* HTML write and before the JSON write leaves the HTML file written and
\* the JSON file not.
C14_WritesInOrder ==
  /\ pc = "done" =>
       /\ Times("write_html") = 1
       /\ Times("write_json") = IF args_json = Some(TRUE) THEN 1 ELSE 0
  /\ \A i \in 1..Len(disk) :
       disk[i] = "write_json" => \E j \in 1..(i - 1) : disk[j] = "write_html"
  /\ (pc = "failed" /\ error[1].line \in 319..323) =>
       /\ Times("write_html") = 1
       /\ Times("write_json") = 0

C14_Witness ==
  /\ pc = "done"
  /\ args_json = Some(TRUE)
  /\ disk = <<"mkdir_output", "write_html", "mkdir_json", "write_json">>
  /\ html_report # None
  /\ payload # None

\* ------------------------------------- properties of the solar data modules
\* the latest call was a call of op
Did(op) == IF call = None THEN FALSE ELSE call[1].op = op

\* the k-th smallest member of the set S of row numbers
KthOf(S, k) == CHOOSE i \in S : Cardinality({ j \in S : j <= i }) = k

\* C15: summarize() and filter_by_date() raise RuntimeError when the
\* pipeline they are called on has not been loaded.
C15_UnloadedRaisesRuntimeError ==
  (Did("summarize") \/ Did("filter_by_date")) =>
    (~call[1].loaded => call[1].raised = Some("RuntimeError"))

\* C16: validate_solar_data returns a report for every frame; when a
\* required column is missing the report holds required_columns_exist with
\* passed false and all_passed is false; and in every report the passed and
\* the failed checks add up to total_checks, the number of results.
C16_ValidateAlwaysReports ==
  Did("validate_solar_data") =>
    /\ call[1].raised = None
    /\ LET report == call[1].value[1]
           required == { "Date", "Yield(Wh)", "Max. PV power(W)", "Max. PV voltage(V)" }
       IN /\ required \ call[1].before[1].columns # {} =>
               /\ \E i \in 1..Len(report.results) :
                    /\ report.results[i].check_name = "required_columns_exist"
                    /\ ~report.results[i].passed
               /\ report.failed_checks # 0
          /\ report.passed_checks + report.failed_checks = report.total_checks
          /\ report.total_checks = Len(report.results)

\* C17: generate_cost_report raises ValueError and returns nothing when
\* Yield(Wh) or Consumption(Wh) is missing, and save_cost_report then does
\* not write; with both columns and a total consumption of 0 it returns a
\* report whose solar_offset_percent is 0.
C17_CostReportGuards ==
  /\ Did("generate_cost_report") =>
       LET frame == call[1].before[1]
       IN IF { "Yield(Wh)", "Consumption(Wh)" } \ frame.columns # {}
            THEN call[1].raised = Some("ValueError") /\ call[1].value = None
            ELSE SumColumn(frame.rows, "Consumption(Wh)") = 0 =>
                   /\ call[1].raised = None
                   /\ IsZero(call[1].value[1].solar_offset_percent)
  /\ Did("save_cost_report") =>
       ({ "Yield(Wh)", "Consumption(Wh)" } \ call[1].before[1].columns # {} =>
          call[1].raised = Some("ValueError") /\ ~call[1].wrote)

C17_Witness ==
  /\ Did("generate_cost_report")
  /\ call[1].raised = None
  /\ Len(call[1].before[1].rows) = 2
  /\ call[1].value[1].total_solar_wh = 600
  /\ call[1].value[1].total_consumption_wh = 0
  /\ IsZero(call[1].value[1].solar_offset_percent)

\* C18: filter_by_date(start, end) returns the loaded rows whose Date d has
\* start <= d <= end, all of them and no other, in the order they are
\* loaded in, and leaves the loaded frame as it was; summarize() counts
\* every loaded row.
C18_FilterInclusiveInOrder ==
  /\ (Did("filter_by_date") /\ df # None) =>
       (call[1].raised = None =>
          LET rows == df[1].rows
              start == call[1].args[1]
              end == call[1].args[2]
              kept == { i \in 1..Len(rows) :
                          start <= rows[i]["Date"] /\ rows[i]["Date"] <= end }
              out == call[1].value[1].rows
          IN /\ Len(out) = Cardinality(kept)
             /\ \A k \in 1..Len(out) : out[k] = rows[KthOf(kept, k)]
             /\ call[1].loaded => df = call[1].before)
  /\ Did("summarize") =>
       (call[1].raised = None => call[1].value[1].total_days = Len(df[1].rows))

C18_Witness ==
  /\ Did("filter_by_date")
  /\ call[1].loaded
  /\ call[1].raised = None
  /\ call[1].args = <<2, 2>>
  /\ Len(df[1].rows) = 2
  /\ df[1].rows[1]["Date"] = 1
  /\ df[1].rows[2]["Date"] = 2
  /\ call[1].value[1].rows = <<df[1].rows[2]>>

\* C21: at every point of the parse and in the returned map an entry is
\* executable exactly when its hits is not null; so a line of the payload
\* with status missed has hits that is an integer not above 0.
C21_ExecutableIffHits ==
  /\ \A l \in DOMAIN results : results[l].executable <=> results[l].hits # None
  /\ payload # None =>
       \A i \in 1..Len(payload[1].lines) :
         payload[1].lines[i].status = "missed" =>
           /\ payload[1].lines[i].hits # None
           /\ payload[1].lines[i].hits[1] <= 0

C21_Witness ==
  /\ payload # None
  /\ Len(payload[1].lines) = 2
  /\ payload[1].lines[1].status = "missed"
  /\ payload[1].lines[1].hits = Some(0)
  /\ payload[1].lines[2].status = "noncode"
  /\ 2 \in DOMAIN results
  /\ DOMAIN results[2].branches # {}

\* C22: main touches the file system only after both inputs were read: while
\* the listing or the source is still to be read nothing was made or
\* written, and a run that ends because the listing or the source cannot be
\* read has made no directory and written no file.
C22_ReadsBeforeWrites ==
  /\ pc \in {"parse", "read_source"} => disk = <<>>
  /\ (pc = "failed" /\ error[1].line \in {24, 314}) => disk = <<>>

C22_Witness ==
  /\ pc = "failed"
  /\ error = Some([exc |-> "OSError", line |-> 314])
  /\ disk = <<>>

\* C23: in every payload the summary agrees with the list of lines:
\* summary.lines.total is the number of lines listed as executable and
\* summary.lines.covered the number listed with status covered or partial.
C23_SummaryAgreesWithLines ==
  payload # None =>
    LET lines == payload[1].lines
    IN /\ payload[1].summary.lines.total
            = Cardinality({ i \in 1..Len(lines) : lines[i].executable })
       /\ payload[1].summary.lines.covered
            = Cardinality({ i \in 1..Len(lines) :
                              lines[i].status \in {"covered", "partial"} })

\* C24: a load() that raised leaves the pipeline without loaded data, df
\* None, so that the next summarize() or filter_by_date() loads again.
C24_FailedLoadLeavesNone ==
  (Did("load") /\ call[1].raised # None) => df = None

\* C25: format_cost_report returns the text, raising nothing, for every
\* report generate_cost_report returns.
C25_FormatNeverRaises ==
  (Did("generate_cost_report") /\ call[1].raised = None) =>
    format_cost_report(call[1].value[1]).raised = None

====
